---- MODULE Spec2Model ----
(***************************************************************************)
(* Chunk aggregation of HDX predictions: Analyze.__add__ (Analysis.py),    *)
(* Radou.__add__ / Radou.run and PH.__add__ / PH.PF / PH.run (Methods.py), *)
(* the segment analysis Analyze.run and the per-chunk output files.        *)
(*                                                                         *)
(* Numbers.  numpy float64 values are modelled exactly, as extended        *)
(* rationals: a record [k, n, d] with                                      *)
(*   k = "fin"  : the rational n/d in lowest terms, d > 0                  *)
(*   k = "inf"  : +infinity (n = 1) or -infinity (n = -1)                  *)
(*   k = "nan"  : not-a-number                                             *)
(*   k = "sqrt" : the square root of n/d  (np.sqrt / np.std results)       *)
(*   k = "omexp": the number 1 - exp(-n/d), n/d > 0  (a deuterated         *)
(*                fraction; exp is injective, so equal encodings mean      *)
(*                equal numbers)                                           *)
(* Floating-point rounding is not modelled (exact arithmetic).             *)
(***************************************************************************)
EXTENDS Integers, Sequences, FiniteSets, TLC

\* obj: the objects a driver holds; outcome: how the last call ended;
\* logfile: the lines appended to params['logfile'] so far; files: the names
\* of the output files under params['outprefix']; calls: the methods the
\* last Analyze.run() has called, in order, each with how it ended
VARIABLES obj, outcome, logfile, files, calls

vars == <<obj, outcome, logfile, files, calls>>

(***************************************************************************)
(* Bounds of the model.                                                    *)
(***************************************************************************)
\* most chunks one Analyze object may hold
MaxChunks == 3
\* most frames one Radou / PH object may accumulate
MaxFrames == 5

\* the two variables a driver holds objects in
Slots == {1, 2}

(***************************************************************************)
(* Extended-rational arithmetic (numpy float64 semantics, exact).          *)
(***************************************************************************)
Abs(x) == IF x < 0 THEN -x ELSE x

RECURSIVE GCD(_, _)
GCD(a, b) == IF b = 0 THEN a ELSE GCD(b, a % b)

NaN == [k |-> "nan", n |-> 0, d |-> 0]

Inf(s) == [k |-> "inf", n |-> s, d |-> 0]

\* the rational n/d (d # 0) in lowest terms with a positive denominator
Fin(n, d) ==
    LET g == GCD(Abs(n), Abs(d))
        s == IF d < 0 THEN -1 ELSE 1
    IN  [k |-> "fin", n |-> (s * n) \div g, d |-> (s * d) \div g]

Int2V(i) == Fin(i, 1)

Sign(v) == IF v.n > 0 THEN 1 ELSE IF v.n < 0 THEN -1 ELSE 0

IsZero(v) == v.k = "fin" /\ v.n = 0

VNeg(a) == [a EXCEPT !.n = -a.n]

VAdd(a, b) ==
    IF a.k = "nan" \/ b.k = "nan" THEN NaN
    ELSE IF a.k = "inf" /\ b.k = "inf" THEN (IF a.n = b.n THEN a ELSE NaN)
    ELSE IF a.k = "inf" THEN a
    ELSE IF b.k = "inf" THEN b
    ELSE Fin(a.n * b.d + b.n * a.d, a.d * b.d)

VMul(a, b) ==
    IF a.k = "nan" \/ b.k = "nan" THEN NaN
    ELSE IF a.k = "inf" \/ b.k = "inf"
         THEN (IF IsZero(a) \/ IsZero(b) THEN NaN ELSE Inf(Sign(a) * Sign(b)))
    ELSE Fin(a.n * b.n, a.d * b.d)

\* float64 true division: x/0 is +-inf (0/0 is nan), x/inf is 0; only a
\* warning is issued, nothing is raised
VDiv(a, b) ==
    IF a.k = "nan" \/ b.k = "nan" THEN NaN
    ELSE IF a.k = "inf" /\ b.k = "inf" THEN NaN
    ELSE IF a.k = "inf" THEN Inf(IF Sign(b) < 0 THEN -a.n ELSE a.n)
    ELSE IF b.k = "inf" THEN Fin(0, 1)
    ELSE IF b.n = 0 THEN (IF a.n = 0 THEN NaN ELSE Inf(Sign(a)))
    ELSE Fin(a.n * b.d, a.d * b.n)

\* np.sqrt of a value >= 0
NpSqrt(q) ==
    IF q.k = "fin" THEN [k |-> "sqrt", n |-> q.n, d |-> q.d] ELSE q

\* x**2 of a standard deviation (a "sqrt" value, inf or nan)
Square(s) ==
    IF s.k = "sqrt" THEN Fin(s.n, s.d)
    ELSE IF s.k = "fin" THEN VMul(s, s)
    ELSE IF s.k = "inf" THEN Inf(1)
    ELSE NaN

\* a standard deviation divided by a frame count
SqrtDiv(s, c) == NpSqrt(VDiv(Square(s), Int2V(c * c)))

\* 1 - np.exp(y)
OneMinusExp(y) ==
    IF y.k = "nan" THEN NaN
    ELSE IF y.k = "inf" THEN (IF y.n < 0 THEN Fin(1, 1) ELSE Inf(-1))
    ELSE IF y.n = 0 THEN Fin(0, 1)
    ELSE [k |-> "omexp", n |-> -y.n, d |-> y.d]

(***************************************************************************)
(* Sequence helpers (numpy array operations).                              *)
(***************************************************************************)
Last(s) == s[Len(s)]

Min(a, b) == IF a < b THEN a ELSE b

\* CumSumInt without the running sum: the appended frame counts as they are
CumSumIntNotSummed(s) == s

\* np.cumsum of integers
CumSumInt(s) ==
    LET RECURSIVE acc(_)
        acc(i) == IF i = 0 THEN 0 ELSE acc(i - 1) + s[i]
    IN  [i \in 1..Len(s) |-> acc(i)]

\* np.cumsum(rows, axis=0): rows is a sequence of equally long rows
CumSumRows(rows) ==
    LET RECURSIVE acc(_, _)
        acc(i, r) == IF i = 1 THEN rows[1][r]
                     ELSE VAdd(acc(i - 1, r), rows[i][r])
    IN  [i \in 1..Len(rows) |-> [r \in 1..Len(rows[i]) |-> acc(i, r)]]

(***************************************************************************)
(* Inputs: configured timepoints, topologies, per-chunk results.           *)
(***************************************************************************)
\* params['times']: the configured timepoints
Times == <<1, 10>>

\* a topology's residue list with its intrinsic rates (the external lookup
\* kint()): the second differs from the first in the rates only, the third
\* in the residue list only
FirstTopology == [reslist |-> <<1, 2>>, rates |-> <<1, 2>>]

Topologies ==
    { FirstTopology,
      [reslist |-> <<1, 2>>, rates |-> <<1, 3>>],
      [reslist |-> <<1, 3>>, rates |-> <<1, 2>>] }

\* the topologies of the objects a slot is given: the accumulating slot 1
\* works on the first topology, the next chunk (slot 2) may be of any
TopologiesOf(s) == IF s = 1 THEN {FirstTopology} ELSE Topologies

\* the deuterated fraction of one residue at one timepoint
Fraction(pf, k, t) ==
    OneMinusExp(VNeg(VMul(VDiv(Int2V(k), pf), Int2V(t))))

\* DfPredictor.dfrac: resfracs[residue][time] from the mean PFs and rates
Dfrac(means, rates) ==
    [r \in 1..Len(means) |->
        [t \in 1..Len(Times) |-> Fraction(means[r], rates[r], Times[t])]]

\* params['segfile']: the files of segment definitions (start and end
\* residue ID of each segment) a run may be configured with
SegFiles ==
    [seg_present |-> << <<10, 20>>, <<5, 30>> >>,
     seg_noend   |-> << <<10, 40>>, <<20, 31>> >>,
     seg_nostart |-> << <<7, 20>>, <<10, 20>> >>]

\* params['expfile']: the experimental data files, one row per segment
\* (start ID, end ID, one fraction per timepoint); "None" is no file
ExpFiles ==
    [exp_present  |-> << [segres |-> <<10, 20>>, fracs |-> <<Fin(1, 2), Fin(3, 4)>>],
                         [segres |-> <<5, 30>>,  fracs |-> <<Fin(1, 4), Fin(1, 1)>>] >>,
     exp_swapped  |-> << [segres |-> <<5, 30>>,  fracs |-> <<Fin(1, 4), Fin(1, 1)>>],
                         [segres |-> <<10, 20>>, fracs |-> <<Fin(1, 2), Fin(3, 4)>>] >>,
     exp_value    |-> << [segres |-> <<10, 20>>, fracs |-> <<Fin(1, 2), Fin(3, 4)>>],
                         [segres |-> <<5, 31>>,  fracs |-> <<Fin(1, 4), Fin(1, 1)>>] >>,
     exp_shorter  |-> << [segres |-> <<10, 20>>, fracs |-> <<Fin(1, 2), Fin(3, 4)>>] >>,
     exp_fewtimes |-> << [segres |-> <<10, 20>>, fracs |-> <<Fin(1, 2)>>],
                         [segres |-> <<5, 30>>,  fracs |-> <<Fin(1, 4)>>] >>]

\* the parameter sets of a run: skip_first, segfile, expfile (experimental
\* data are given for the first segment file)
ParamSets ==
    { p \in [skip_first : BOOLEAN, segfile : DOMAIN SegFiles,
             expfile : DOMAIN ExpFiles \cup {"None"}] :
        p.expfile = "None" \/ p.segfile = "seg_present" }

DefaultParams ==
    [skip_first |-> TRUE, segfile |-> "seg_present", expfile |-> "None"]

\* the per-chunk results handed to Analyze: frame count and mean PF of each
\* residue; a chunk of 0 frames has the mean of no frames as PF, which is
\* nan; a residue open in every frame of a water-contact chunk has PF 0, one
\* closed in every frame has PF +inf
ChunkResults ==
    { [n_frames |-> 10, pfs |-> <<Int2V(100), Int2V(300)>>],
      [n_frames |-> 10, pfs |-> <<Int2V(300), Int2V(100)>>],
      [n_frames |-> 30, pfs |-> <<Int2V(300), Int2V(100)>>],
      [n_frames |-> 0,  pfs |-> <<NaN, NaN>>],
      [n_frames |-> 10, pfs |-> <<Int2V(0), Inf(1)>>] }

\* the chunk results drawn for a topology: every one for the first topology,
\* one for a topology whose results no Analyze.__add__ merges
ChunkResultsOf(tp) ==
    IF tp = FirstTopology THEN ChunkResults
    ELSE { c \in ChunkResults : c.n_frames = 10 /\ c.pfs[1] = Int2V(100) }

\* the result objects Analyze.__init__ copies from: reslist, rates, a vector
\* of per-residue PFs, resfracs = dfrac(), t.n_frames
ResObjsWith(tps, paramsets) ==
    UNION { { [reslist |-> tp.reslist, rates |-> tp.rates,
               n_frames |-> c.n_frames, pfs |-> c.pfs,
               resfracs |-> Dfrac(c.pfs, tp.rates), params |-> p] :
                 c \in ChunkResultsOf(tp), p \in paramsets } : tp \in tps }

\* the result objects of a prediction run with the default parameters
ResObjs(tps) == ResObjsWith(tps, {DefaultParams})

(***************************************************************************)
(* class Analyze                                                           *)
(***************************************************************************)
NoObj == [cls |-> "None"]

\* Analyze.__init__
AnalyzeInit(resobj) ==
    [cls        |-> "Analyze",
     reslist    |-> resobj.reslist,
     resfracs   |-> <<resobj.resfracs>>,
     c_resfracs |-> <<resobj.resfracs>>,
     pfs        |-> <<resobj.pfs>>,
     c_pfs      |-> <<resobj.pfs>>,
     n_frames   |-> <<resobj.n_frames>>,
     c_n_frames |-> <<resobj.n_frames>>,
     rates      |-> resobj.rates,
     params     |-> resobj.params]

\* the guard of Analyze.__add__: both lists must be equal
SameListsAndRates(self, other) ==
    self.reslist = other.reslist /\ self.rates = other.rates

\* RunningAvePfs with the cumulative sums divided by the frames of the
\* chunk itself instead of the cumulative frame count
RunningAvePfsByChunkFrames(n_frames, pfs) ==
    LET scaled == [i \in 1..Len(pfs) |->
                     [r \in 1..Len(pfs[i]) |->
                        VMul(pfs[i][r], Int2V(n_frames[i]))]]
        sums   == CumSumRows(scaled)
    IN  [i \in 1..Len(sums) |->
           [r \in 1..Len(sums[i]) |-> VDiv(sums[i][r], Int2V(n_frames[i]))]]

\* running frame-weighted average of the PF rows: each row times its frames,
\* cumulative sums, each sum over the cumulative frame count
RunningAvePfs(n_frames, pfs) ==
    LET m      == Min(Len(n_frames), Len(pfs))
        scaled == [i \in 1..Len(pfs) |->
                     IF i <= m
                     THEN [r \in 1..Len(pfs[i]) |->
                             VMul(pfs[i][r], Int2V(n_frames[i]))]
                     ELSE pfs[i]]
        sums   == CumSumRows(scaled)
        c_n    == CumSumInt(n_frames)
    IN  [i \in 1..Len(sums) |->
           IF i <= Len(c_n)
           THEN [r \in 1..Len(sums[i]) |-> VDiv(sums[i][r], Int2V(c_n[i]))]
           ELSE sums[i]]

\* ResidueFraction with -pf / k for -k / pf
ResidueFractionInverted(pf, k, time) ==
    OneMinusExp(VMul(VDiv(VNeg(pf), Int2V(k)), Int2V(time)))

\* _residue_fraction(pf, k, time=t)
ResidueFraction(pf, k, time) ==
    OneMinusExp(VMul(VDiv(VNeg(Int2V(k)), pf), Int2V(time)))

\* RedoResfracs from the running average before the merge (the row before
\* the last one)
RedoResfracsStale(new) ==
    LET pfrow == new.c_pfs[Len(new.c_pfs) - 1]
    IN  [i1 \in 1..Min(Len(pfrow), Len(new.rates)) |->
           [i2 \in 1..Len(Times) |->
              ResidueFraction(pfrow[i1], new.rates[i1], Times[i2])]]

\* RedoResfracs replaced by the reuse of the newest per-chunk fractions
RedoResfracsFromChunk(new) == Last(new.resfracs)

\* the block of fractions redone from the running average of the PFs:
\* _[i1, i2] over zip(new.c_pfs[-1], new.rates) and new.params['times']
RedoResfracs(new) ==
    LET pfrow == Last(new.c_pfs)
    IN  [i1 \in 1..Min(Len(pfrow), Len(new.rates)) |->
           [i2 \in 1..Len(Times) |->
              ResidueFraction(pfrow[i1], new.rates[i1], Times[i2])]]

\* AppendChunks with other's chunks put first
AppendChunksOtherFirst(mine, theirs) == theirs \o mine

\* np.append / np.concatenate(axis=0) of the per-chunk arrays
AppendChunks(mine, theirs) == mine \o theirs

\* the object Analyze.__add__ returns when it merges: a deep copy of self
\* with other's chunks appended and the cumulative arrays redone
AnalyzeMerged(self, other) ==
    LET n_frames == AppendChunks(self.n_frames, other.n_frames)
        pfs      == AppendChunks(self.pfs, other.pfs)
        new      == [self EXCEPT
                       !.n_frames   = n_frames,
                       !.c_n_frames = CumSumInt(n_frames),
                       !.pfs        = pfs,
                       !.c_pfs      = RunningAvePfs(n_frames, pfs),
                       !.resfracs   = AppendChunks(self.resfracs, other.resfracs)]
    IN  [new EXCEPT !.c_resfracs = Append(new.c_resfracs, RedoResfracs(new))]

\* AnalyzeAddSelfAfter with new = self in place of the deep copy: the merge
\* is applied to self
AnalyzeAddSelfMerged(self, other) == AnalyzeMerged(self, other)

\* Analyze.__add__ when it merges: self after the call; the merge works on
\* copy.deepcopy(self) and rebinds the attributes of the copy only
AnalyzeAddSelfAfter(self, other) == self

\* Analyze.__add__: what self + other evaluates to
AnalyzeAddResult(self, other) ==
    IF other.cls = "Analyze"
    THEN IF ~SameListsAndRates(self, other) THEN self
         ELSE AnalyzeMerged(self, other)
    ELSE self

(***************************************************************************)
(* Analyze.segments, read_expfile, desc_stats, run                         *)
(***************************************************************************)
\* top.residues, in index order (the first has index 0): residue ID and
\* whether it is a protein residue; the last residue is a water
TopResidues ==
    << [resSeq |-> 5,  is_protein |-> TRUE],
       [resSeq |-> 10, is_protein |-> TRUE],
       [resSeq |-> 20, is_protein |-> TRUE],
       [resSeq |-> 30, is_protein |-> TRUE],
       [resSeq |-> 31, is_protein |-> FALSE] >>

\* res2idx: residue ID -> residue index, of the protein residues
Res2Idx ==
    [id \in {TopResidues[i].resSeq :
                i \in {j \in 1..Len(TopResidues) : TopResidues[j].is_protein}} |->
        (CHOOSE i \in 1..Len(TopResidues) : TopResidues[i].resSeq = id) - 1]

\* top.residue(-1).index
LastResidueIndex == Len(TopResidues) - 1

RECURSIVE Concat(_)
Concat(ss) == IF Len(ss) = 0 THEN <<>> ELSE Head(ss) \o Concat(Tail(ss))

\* np.mean of a sequence of values: the mean of nothing is nan; a mean
\* that holds an exponential is kept as the term [k |-> "mean", of |-> xs]
NpMeanOf(xs) ==
    LET RECURSIVE sum(_)
        sum(i) == IF i = 0 THEN Int2V(0) ELSE VAdd(sum(i - 1), xs[i])
    IN  IF Len(xs) = 0 THEN NaN
        ELSE IF \E i \in 1..Len(xs) : xs[i].k = "nan" THEN NaN
        ELSE IF \A i \in 1..Len(xs) : xs[i].k = "fin"
             THEN VDiv(sum(Len(xs)), Int2V(Len(xs)))
        ELSE IF Len(xs) = 1 THEN xs[1]
        ELSE [k |-> "mean", of |-> xs]

\* a - b, kept as a term when a is not a rational
NpSub(a, b) ==
    IF a.k = "nan" \/ b.k = "nan" THEN NaN
    ELSE IF a.k = "fin" /\ b.k = "fin" THEN VAdd(a, VNeg(b))
    ELSE [k |-> "sub", a |-> a, b |-> b]

\* np.abs
NpAbs(a) ==
    IF a.k = "nan" THEN NaN
    ELSE IF a.k = "fin" THEN Fin(Abs(a.n), a.d)
    ELSE [k |-> "abs", of |-> a]

\* Analyze.read_segfile: self.segres
ReadSegfile(self) == SegFiles[self.params.segfile]

\* the "Info for 'skip_first'" loop: one line per segment, looking the start
\* ID up in res2idx without a handler for a missing key
SkipFirstInfo(self, segres) ==
    IF \E i \in 1..Len(segres) : segres[i][1] \notin DOMAIN Res2Idx
    THEN [raised |-> "KeyError",
          log |-> [i \in 1..(CHOOSE j \in 1..Len(segres) :
                               /\ segres[j][1] \notin DOMAIN Res2Idx
                               /\ \A h \in 1..(j - 1) :
                                     segres[h][1] \in DOMAIN Res2Idx) - 1 |->
                     [msg |-> "skip_first", set |-> self.params.skip_first,
                      seg |-> segres[i]]]]
    ELSE [raised |-> "none",
          log |-> [i \in 1..Len(segres) |->
                     [msg |-> "skip_first", set |-> self.params.skip_first,
                      seg |-> segres[i]]]]

\* start index of segment s in the averaging loops
SegStart(s) == IF s[1] \in DOMAIN Res2Idx THEN Res2Idx[s[1]] ELSE 0

\* SegEnd with the start point standing in for a missing end point
SegEndAsStart(s) == IF s[2] \in DOMAIN Res2Idx THEN Res2Idx[s[2]] ELSE SegStart(s)

\* end index of segment s in the averaging loops
SegEnd(s) == IF s[2] \in DOMAIN Res2Idx THEN Res2Idx[s[2]] ELSE LastResidueIndex

\* the lines one pass of an averaging loop writes for segment s; the line
\* about a missing end point names the start ID s[0]
SubstitutionLog(s, cumulative) ==
    (IF s[1] \in DOMAIN Res2Idx THEN <<>>
     ELSE << [msg |-> "startpoint", cumulative |-> cumulative,
              res |-> s[1], using |-> 0] >>)
    \o
    (IF s[2] \in DOMAIN Res2Idx THEN <<>>
     ELSE << [msg |-> "endpoint", cumulative |-> cumulative,
              res |-> s[1], using |-> LastResidueIndex] >>)

\* np.where(...)[0]: the positions in reslist averaged for start and end
\* SegIdxs with the start residue always included
SegIdxsKeepFirst(reslist, start, end, skip_first) ==
    LET keep(i) == reslist[i] >= start /\ reslist[i] <= end
    IN  SelectSeq([i \in 1..Len(reslist) |-> i], keep)

SegIdxs(reslist, start, end, skip_first) ==
    LET keep(i) == /\ (IF skip_first THEN reslist[i] > start
                       ELSE reslist[i] >= start)
                   /\ reslist[i] <= end
    IN  SelectSeq([i \in 1..Len(reslist) |-> i], keep)

\* one averaging loop over blocks[chunk][residue][time]:
\* aves[chunk][segment][time]
SegAverages(self, segres, blocks) ==
    [i0 \in 1..Len(blocks) |->
       [i1 \in 1..Len(segres) |->
          [i2 \in 1..Len(Times) |->
             LET idxs == SegIdxs(self.reslist, SegStart(segres[i1]),
                                 SegEnd(segres[i1]), self.params.skip_first)
             IN  NpMeanOf([n \in 1..Len(idxs) |-> blocks[i0][idxs[n]][i2]])]]]

\* the lines one averaging loop writes: for every block, timepoint, segment
SegAveragesLog(segres, blocks, cumulative) ==
    Concat([i0 \in 1..Len(blocks) |->
       Concat([i2 \in 1..Len(Times) |->
          Concat([i1 \in 1..Len(segres) |->
             SubstitutionLog(segres[i1], cumulative)])])])

\* Segments with the cumulative averages taken from the per-chunk blocks
SegmentsBothFromChunks(self) ==
    LET segres == ReadSegfile(self)
        info   == SkipFirstInfo(self, segres)
    IN  IF info.raised # "none"
        THEN [raised |-> info.raised,
              log |-> << [msg |-> "converting"],
                         [msg |-> "not_protein", res |-> 31] >> \o info.log]
        ELSE [raised |-> "none",
              log    |-> << [msg |-> "converting"],
                            [msg |-> "not_protein", res |-> 31] >> \o info.log
                         \o SegAveragesLog(segres, self.resfracs, FALSE)
                         \o SegAveragesLog(segres, self.c_resfracs, TRUE)
                         \o << [msg |-> "complete"] >>,
              aves   |-> SegAverages(self, segres, self.resfracs),
              c_aves |-> SegAverages(self, segres, self.resfracs)]

\* Analyze.segments(top): the log lines it appends, whether it raises, and
\* the two arrays it returns
Segments(self) ==
    LET segres == ReadSegfile(self)
        head   == << [msg |-> "converting"],
                     [msg |-> "not_protein", res |-> 31] >>
        info   == SkipFirstInfo(self, segres)
    IN  IF info.raised # "none"
        THEN [raised |-> info.raised, log |-> head \o info.log]
        ELSE [raised |-> "none",
              log    |-> head \o info.log
                         \o SegAveragesLog(segres, self.resfracs, FALSE)
                         \o SegAveragesLog(segres, self.c_resfracs, TRUE)
                         \o << [msg |-> "complete"] >>,
              aves   |-> SegAverages(self, segres, self.resfracs),
              c_aves |-> SegAverages(self, segres, self.c_resfracs)]

\* ReadExpfile with the rows of the file matched to self.segres by their
\* segment when the file lists the same segments in another order
ReadExpfileRealigned(self) ==
    LET expt == ExpFiles[self.params.expfile]
        row(seg) == CHOOSE i \in 1..Len(expt) : expt[i].segres = seg
    IN  IF \E i \in 1..Len(expt) : Len(expt[i].fracs) # Len(Times)
        THEN [raised |-> "HDX_Error"]
        ELSE IF /\ Len(expt) = Len(self.segres)
                /\ \A j \in 1..Len(self.segres) :
                      \E i \in 1..Len(expt) : expt[i].segres = self.segres[j]
        THEN [raised |-> "none",
              expfracs |-> [j \in 1..Len(self.segres) |->
                              expt[row(self.segres[j])].fracs]]
        ELSE [raised |-> "HDX_Error"]

\* Analyze.read_expfile: HDX_Error when a row holds fewer or more fractions
\* than there are timepoints, or when the segments of the file are not
\* self.segres; otherwise expfracs
ReadExpfile(self) ==
    LET expt == ExpFiles[self.params.expfile]
    IN  IF \E i \in 1..Len(expt) : Len(expt[i].fracs) < Len(Times)
        THEN [raised |-> "HDX_Error"]
        ELSE IF \A i \in 1..Len(expt) : Len(expt[i].fracs) > Len(Times)
        THEN [raised |-> "HDX_Error"]
        ELSE IF self.segres = [i \in 1..Len(expt) |-> expt[i].segres]
        THEN [raised |-> "none",
              expfracs |-> [i \in 1..Len(expt) |-> expt[i].fracs]]
        ELSE [raised |-> "HDX_Error"]

\* DescStats with the errors taken from the newest per-chunk block
DescStatsOfLastChunk(self) ==
    LET pred == Last(self.segfracs)
        segs == 1..Len(pred)
    IN  [correls |-> [t \in 1..Len(Times) |->
                        [k |-> "pearsonr",
                         x |-> [i \in segs |-> pred[i][t]],
                         y |-> [i \in segs |-> self.expfracs[i][t]]]],
         MSE |-> [t \in 1..Len(Times) |->
                    NpMeanOf([i \in segs |->
                                NpSub(pred[i][t], self.expfracs[i][t])])],
         MUE |-> [t \in 1..Len(Times) |->
                    NpMeanOf([i \in segs |->
                                NpAbs(NpSub(pred[i][t], self.expfracs[i][t]))])]]

\* Analyze.desc_stats: correls, MSE and MUE of every timepoint
DescStats(self) ==
    LET pred == Last(self.c_segfracs)
        segs == 1..Len(pred)
    IN  [correls |-> [t \in 1..Len(Times) |->
                        [k |-> "pearsonr",
                         x |-> [i \in segs |-> pred[i][t]],
                         y |-> [i \in segs |-> self.expfracs[i][t]]]],
         MSE |-> [t \in 1..Len(Times) |->
                    NpMeanOf([i \in segs |->
                                NpSub(pred[i][t], self.expfracs[i][t])])],
         MUE |-> [t \in 1..Len(Times) |->
                    NpMeanOf([i \in segs |->
                                NpAbs(NpSub(pred[i][t], self.expfracs[i][t]))])]]

\* the name <outprefix><base>.dat (chunk = 0) or
\* <outprefix><base>_chunk_<chunk>.dat
FileName(base, chunk) == [base |-> base, chunk |-> chunk]

\* glob.glob(outprefix + base + "*"): the files whose name starts with base
Glob(fs, base) == {f \in fs : f.base = base}

\* NextChunkFile with the glob count itself as the chunk number
NextChunkFileNoIncrement(fs, base) ==
    IF FileName(base, 0) \in fs
    THEN FileName(base, Cardinality(Glob(fs, base)))
    ELSE FileName(base, 0)

\* the name a per-chunk output is saved under: <base>.dat unless it exists,
\* then <base>_chunk_(filenum+1).dat with filenum the glob count
NextChunkFile(fs, base) ==
    IF FileName(base, 0) \in fs
    THEN FileName(base, Cardinality(Glob(fs, base)) + 1)
    ELSE FileName(base, 0)

\* np.savetxt of one per-chunk output: the file system afterwards
SaveChunkFile(fs, base) == fs \cup {NextChunkFile(fs, base)}

\* Analyze.segments, "for chunkave in aves": one file per block of aves
RECURSIVE SegmentsFiles(_, _)
SegmentsFiles(fs, n) ==
    IF n = 0 THEN fs
    ELSE SaveChunkFile(SegmentsFiles(fs, n - 1), "Segment_average_fractions")

\* Analyze.desc_stats, open(..., 'a'): the statistics are appended to one file
DescStatsFiles(fs) == fs \cup {FileName("Descriptive_statistics", 0)}

\* one entry of the call record of Analyze.run()
Call(method, raised) == [method |-> method, raised |-> raised]

\* AnalyzeRunResult with desc_stats called before read_expfile: it finds no
\* self.expfracs and raises
AnalyzeRunResultStatsFirst(self, fs) ==
    LET s1  == [segres |-> ReadSegfile(self)] @@ self
        seg == Segments(s1)
        c1  == << Call("read_segfile", FALSE) >>
    IN  IF seg.raised # "none"
        THEN [self |-> s1, outcome |-> seg.raised, log |-> seg.log,
              files |-> fs, calls |-> c1 \o << Call("segments", TRUE) >>]
        ELSE
        LET s2 == [segfracs |-> seg.aves, c_segfracs |-> seg.c_aves] @@ s1
            f2 == SegmentsFiles(fs, Len(seg.aves))
            c2 == c1 \o << Call("segments", FALSE) >>
        IN  IF s2.params.expfile = "None"
            THEN [self |-> s2, outcome |-> "done", log |-> seg.log,
                  files |-> f2, calls |-> c2]
            ELSE [self |-> s2, outcome |-> "AttributeError", log |-> seg.log,
                  files |-> f2,
                  calls |-> c2 \o << Call("desc_stats", TRUE) >>]

\* Analyze.run() with the output files fs present: self afterwards, how the
\* call ended, the lines it logged, the files afterwards and the methods
\* called
AnalyzeRunResult(self, fs) ==
    LET s1  == [segres |-> ReadSegfile(self)] @@ self
        seg == Segments(s1)
        c1  == << Call("read_segfile", FALSE) >>
    IN  IF seg.raised # "none"
        THEN [self |-> s1, outcome |-> seg.raised, log |-> seg.log,
              files |-> fs, calls |-> c1 \o << Call("segments", TRUE) >>]
        ELSE
        LET s2 == [segfracs |-> seg.aves, c_segfracs |-> seg.c_aves] @@ s1
            f2 == SegmentsFiles(fs, Len(seg.aves))
            c2 == c1 \o << Call("segments", FALSE) >>
        IN  IF s2.params.expfile = "None"
            THEN [self |-> s2, outcome |-> "done", log |-> seg.log,
                  files |-> f2, calls |-> c2]
            ELSE
            LET exp == ReadExpfile(s2)
            IN  IF exp.raised # "none"
                THEN [self |-> s2, outcome |-> exp.raised, log |-> seg.log,
                      files |-> f2,
                      calls |-> c2 \o << Call("read_expfile", TRUE) >>]
                ELSE
                LET s3 == [expfracs |-> exp.expfracs] @@ s2
                IN  [self |-> DescStats(s3) @@ s3, outcome |-> "done",
                     log |-> seg.log, files |-> DescStatsFiles(f2),
                     calls |-> c2 \o << Call("read_expfile", FALSE),
                                        Call("desc_stats", FALSE) >>]

(***************************************************************************)
(* classes Radou and PH (prediction methods)                               *)
(***************************************************************************)
\* sum of a sequence of values
RECURSIVE VSum(_)
VSum(xs) == IF Len(xs) = 0 THEN Int2V(0) ELSE VAdd(xs[1], VSum(Tail(xs)))

\* np.mean(x): the mean of no values is 0/0 = nan
NpMean(xs) == VDiv(VSum(xs), Int2V(Len(xs)))

\* np.std(x, ddof=1): sqrt(sum((x - mean)**2) / max(N - 1, 0))
NpStd1(xs) ==
    LET mean == NpMean(xs)
        devs == [i \in 1..Len(xs) |->
                   LET dv == VAdd(xs[i], VNeg(mean)) IN VMul(dv, dv)]
        rcount == IF Len(xs) > 1 THEN Len(xs) - 1 ELSE 0
    IN  NpSqrt(VDiv(VSum(devs), Int2V(rcount)))

\* Trajectory chunks handed to Radou.run, one row per frame holding the
\* per-frame protection factors np.exp(hbonds + contacts) of residues 1, 2
RadouTrajectories ==
    LET a == <<Int2V(1), Int2V(3)>>
        b == <<Int2V(3), Int2V(1)>>
    IN  { <<>>, <<a, a>>, <<a, b>>, <<a, b, b>> }

\* Trajectory chunks handed to PH.run, one row per frame holding the
\* water-contact counts of residues 1, 2
PHTrajectories ==
    LET p == <<0, 2>>
        q == <<2, 1>>
    IN  { <<>>, <<p>>, <<q>>, <<p, p>>, <<p, q>>, <<p, p, q>> }

\* Trajectory chunks whose topology makes PF() raise HDX_Error: for Radou the
\* residues of the H-bond counts (hres) are not those of the heavy-atom
\* contacts (cres); for PH a residue of the water contacts is proline or not
\* protein
RadouMismatched == { <<<<Int2V(1), Int2V(3)>>, <<Int2V(1), Int2V(3)>>>> }

PHMismatched == { <<<<0, 2>>>> }

\* column r of the frames: the by-frame values of residue r
ByFrame(frames, r) == [f \in 1..Len(frames) |-> frames[f][r]]

\* a method object before run(): only params are set
MethodInit(cls) == [cls |-> cls, ran |-> FALSE]

\* RadouRunFailed with self.reslist assigned before the residue check, as
\* PH.PF does
RadouRunFailedAfterReslist(self, frames, tp) ==
    [cls      |-> self.cls,
     ran      |-> FALSE,
     n_frames |-> Len(frames),
     reslist  |-> tp.reslist]

\* Radou.run(trajectory) when PF() raises HDX_Error at the residue check:
\* n_frames is set, the tuple assignment of reslist, pfs, pf_byframe and the
\* statements after it are not reached
RadouRunFailed(self, frames, tp) ==
    [cls      |-> self.cls,
     ran      |-> FALSE,
     n_frames |-> Len(frames)]

\* Radou.run(trajectory): n_frames, PF(), kint(), dfrac()
RadouRun(self, frames, tp) ==
    LET nres       == Len(tp.reslist)
        pf_byframe == [r \in 1..nres |-> ByFrame(frames, r)]
        pfs        == [r \in 1..nres |->
                         [mean |-> NpMean(pf_byframe[r]),
                          sd   |-> NpStd1(pf_byframe[r])]]
    IN  [cls        |-> self.cls,
         ran        |-> TRUE,
         n_frames   |-> Len(frames),
         reslist    |-> tp.reslist,
         pfs        |-> pfs,
         pf_byframe |-> pf_byframe,
         rates      |-> tp.rates,
         resfracs   |-> Dfrac([r \in 1..nres |-> pfs[r].mean], tp.rates)]

\* RadouMergedMean with the sum divided by self's frames before the merge
RadouMergedMeanOldFrames(n, pf, on, opf) ==
    VDiv(VAdd(VMul(Int2V(n), pf), VMul(Int2V(on), opf)), Int2V(n))

\* Radou.__add__, the merge proper: mean PF weighted by frames
RadouMergedMean(n, pf, on, opf) ==
    VDiv(VAdd(VMul(Int2V(n), pf), VMul(Int2V(on), opf)), Int2V(n + on))

\* RadouMergedSd with n_frames updated before the variances are combined
RadouMergedSdNewFrames(n, sd, on, osd) ==
    SqrtDiv(NpSqrt(VAdd(VMul(Int2V((n + on) * (n + on)), Square(sd)),
                        VMul(Int2V(on * on), Square(osd)))),
            n + on)

\* Radou.__add__, the merge proper: standard deviation
RadouMergedSd(n, sd, on, osd) ==
    SqrtDiv(NpSqrt(VAdd(VMul(Int2V(n * n), Square(sd)),
                        VMul(Int2V(on * on), Square(osd)))),
            n + on)

\* RadouMerged without the concatenation of pf_byframe
RadouMergedOwnByFrame(self, other) ==
    LET pfs == [r \in 1..Len(self.pfs) |->
                  [mean |-> RadouMergedMean(self.n_frames, self.pfs[r].mean,
                                            other.n_frames, other.pfs[r].mean),
                   sd   |-> RadouMergedSd(self.n_frames, self.pfs[r].sd,
                                          other.n_frames, other.pfs[r].sd)]]
    IN  [self EXCEPT
           !.pfs        = pfs,
           !.n_frames   = self.n_frames + other.n_frames,
           !.resfracs   = Dfrac([r \in 1..Len(pfs) |-> pfs[r].mean], self.rates)]

\* Radou.__add__ with equal rates: self after the in-place merge
RadouMerged(self, other) ==
    LET pfs == [r \in 1..Len(self.pfs) |->
                  [mean |-> RadouMergedMean(self.n_frames, self.pfs[r].mean,
                                            other.n_frames, other.pfs[r].mean),
                   sd   |-> RadouMergedSd(self.n_frames, self.pfs[r].sd,
                                          other.n_frames, other.pfs[r].sd)]]
    IN  [self EXCEPT
           !.pfs        = pfs,
           !.n_frames   = self.n_frames + other.n_frames,
           !.pf_byframe = [r \in 1..Len(self.pf_byframe) |->
                             self.pf_byframe[r] \o other.pf_byframe[r]],
           !.resfracs   = Dfrac([r \in 1..Len(pfs) |-> pfs[r].mean], self.rates)]

\* PHPfs with an infinite PF replaced by the number of frames
PHPfsInfAsFrames(watcontacts) ==
    [r \in 1..Len(watcontacts) |->
        LET opencount   == Cardinality({f \in 1..Len(watcontacts[r]) :
                                           watcontacts[r][f] > 1})
            closedcount == Cardinality({f \in 1..Len(watcontacts[r]) :
                                           watcontacts[r][f] <= 1})
            pf          == VDiv(Int2V(closedcount), Int2V(opencount))
        IN  [mean |-> IF pf.k = "inf" THEN Int2V(Len(watcontacts[r])) ELSE pf,
             sd   |-> Int2V(0)]]

\* PH.PF, update/calculation of PF: closed frames over open frames
PHPfs(watcontacts) ==
    [r \in 1..Len(watcontacts) |->
        LET opencount   == Cardinality({f \in 1..Len(watcontacts[r]) :
                                           watcontacts[r][f] > 1})
            closedcount == Cardinality({f \in 1..Len(watcontacts[r]) :
                                           watcontacts[r][f] <= 1})
        IN  [mean |-> VDiv(Int2V(closedcount), Int2V(opencount)),
             sd   |-> Int2V(0)]]

\* PH.run(trajectory) when PF() raises HDX_Error: n_frames, reslist and
\* watcontacts are set before the check
PHRunFailed(self, frames, tp) ==
    [cls         |-> self.cls,
     ran         |-> FALSE,
     n_frames    |-> Len(frames),
     reslist     |-> tp.reslist,
     watcontacts |-> [r \in 1..Len(tp.reslist) |-> ByFrame(frames, r)]]

\* PH.run(trajectory): n_frames, PF(), kint(), dfrac()
PHRun(self, frames, tp) ==
    LET nres        == Len(tp.reslist)
        watcontacts == [r \in 1..nres |-> ByFrame(frames, r)]
        pfs         == PHPfs(watcontacts)
    IN  [cls         |-> self.cls,
         ran         |-> TRUE,
         n_frames    |-> Len(frames),
         reslist     |-> tp.reslist,
         watcontacts |-> watcontacts,
         pfs         |-> pfs,
         pf_byframe  |-> [r \in 1..nres |->
                            [f \in 1..Len(frames) |-> pfs[r].mean]],
         rates       |-> tp.rates,
         resfracs    |-> Dfrac([r \in 1..nres |-> pfs[r].mean], tp.rates)]

\* PHMerged with the PF taken as the frame-weighted mean of the two PFs
PHMergedWeightedMean(self, other) ==
    LET n   == self.n_frames + other.n_frames
        pfs == [r \in 1..Len(self.pfs) |->
                  [mean |-> VDiv(VAdd(VMul(Int2V(self.n_frames), self.pfs[r].mean),
                                      VMul(Int2V(other.n_frames), other.pfs[r].mean)),
                                 Int2V(n)),
                   sd   |-> Int2V(0)]]
    IN  [self EXCEPT
           !.n_frames    = n,
           !.watcontacts = [r \in 1..Len(self.watcontacts) |->
                              self.watcontacts[r] \o other.watcontacts[r]],
           !.pf_byframe  = [r \in 1..Len(self.pf_byframe) |->
                              self.pf_byframe[r] \o other.pf_byframe[r]],
           !.pfs         = pfs,
           !.resfracs    = Dfrac([r \in 1..Len(pfs) |-> pfs[r].mean], self.rates)]

\* PH.__add__ with equal rates: self after the in-place merge
PHMerged(self, other) ==
    LET watcontacts == [r \in 1..Len(self.watcontacts) |->
                          self.watcontacts[r] \o other.watcontacts[r]]
        pfs         == PHPfs(watcontacts)
    IN  [self EXCEPT
           !.n_frames    = self.n_frames + other.n_frames,
           !.watcontacts = watcontacts,
           !.pf_byframe  = [r \in 1..Len(self.pf_byframe) |->
                              self.pf_byframe[r] \o other.pf_byframe[r]],
           !.pfs         = pfs,
           !.resfracs    = Dfrac([r \in 1..Len(pfs) |-> pfs[r].mean], self.rates)]

\* Radou.__add__ / PH.__add__: "merged", "HDX_Error" (rates differ) or
\* "self" (other is of another class, or an attribute is missing)
MethodAddOutcome(self, other) ==
    IF other.cls # self.cls THEN "self"
    ELSE IF ~(self.ran /\ other.ran) THEN "self"
    ELSE IF self.rates = other.rates THEN "merged"
    ELSE "HDX_Error"

\* MethodAddResult with self.n_frames += other.n_frames done before the rates
\* are compared: the AttributeError of a missing attribute comes after it
MethodAddResultFramesFirst(self, other) ==
    IF MethodAddOutcome(self, other) = "merged"
    THEN (IF self.cls = "Radou" THEN RadouMerged(self, other)
          ELSE PHMerged(self, other))
    ELSE IF /\ other.cls = self.cls
            /\ "n_frames" \in DOMAIN self /\ "n_frames" \in DOMAIN other
            /\ ~(self.ran /\ other.ran)
    THEN [self EXCEPT !.n_frames = self.n_frames + other.n_frames]
    ELSE self

\* self after Radou.__add__ / PH.__add__
MethodAddResult(self, other) ==
    IF MethodAddOutcome(self, other) = "merged"
    THEN (IF self.cls = "Radou" THEN RadouMerged(self, other)
          ELSE PHMerged(self, other))
    ELSE self

IsMethod(o) == o.cls \in {"Radou", "PH"}

(***************************************************************************)
(* Actions.  A driver holds an accumulated object in slot 1 and the next   *)
(* chunk's object in slot 2; the result of an addition is bound to slot 1. *)
(***************************************************************************)
Init ==
    /\ obj = [s \in Slots |-> NoObj]
    /\ outcome = "none"
    /\ logfile = <<>>
    /\ files = {}
    /\ calls = <<>>

\* slot s := Analyze(resobj, top); sums of Analyze objects are followed from
\* the states without prediction output
NewAnalyze(s) ==
    \E resobj \in ResObjs(TopologiesOf(s)) :
        /\ \A o \in Slots \ {s} : ~(IsMethod(obj[o]) /\ obj[o].ran)
        /\ files = {}
        /\ obj' = [obj EXCEPT ![s] = AnalyzeInit(resobj)]
        /\ outcome' = "none"
        /\ UNCHANGED <<logfile, files, calls>>

\* obj[i] + obj[j], with obj[i] an Analyze object: a new, merged object is
\* bound to slot 1; when the call returns self no new object exists
AnalyzeAdd(i, j) ==
    /\ obj[i].cls = "Analyze"
    /\ obj[j].cls # "None"
    /\ LET res == AnalyzeAddResult(obj[i], obj[j])
       IN  /\ Len(res.n_frames) <= MaxChunks
           /\ IF obj[j].cls = "Analyze" /\ SameListsAndRates(obj[i], obj[j])
              THEN /\ obj' = [s \in Slots |->
                                IF s = 1 THEN res
                                ELSE IF s = i
                                THEN AnalyzeAddSelfAfter(obj[i], obj[j])
                                ELSE obj[s]]
                   /\ outcome' = "new"
              ELSE /\ obj' = obj
                   /\ outcome' = "self"
    /\ UNCHANGED <<logfile, files, calls>>

\* slot s := Radou() or PH(); PH objects, which save no per-chunk output, are
\* followed from the states without prediction output
NewMethod(s) ==
    \E cls \in {"Radou", "PH"} :
        /\ cls = "PH" => files = {}
        /\ obj' = [obj EXCEPT ![s] = MethodInit(cls)]
        /\ outcome' = "none"
        /\ UNCHANGED <<logfile, files, calls>>

\* obj[s].run(trajectory): PF() raises HDX_Error, or the run completes; a
\* completed Radou run has saved its protection factors.  The chunks of one
\* trajectory are predicted by objects of one class.
Run(s) ==
    /\ IsMethod(obj[s])
    /\ ~obj[s].ran
    /\ \A o \in Slots \ {s} : obj[o].cls \in {"None", obj[s].cls}
    /\ \E tp \in TopologiesOf(s) :
         \/ /\ obj[s].cls = "Radou"
            /\ \E frames \in RadouMismatched :
                  obj' = [obj EXCEPT ![s] = RadouRunFailed(obj[s], frames, tp)]
            /\ outcome' = "HDX_Error"
            /\ UNCHANGED files
         \/ /\ obj[s].cls = "Radou"
            /\ Cardinality(Glob(files, "Protection_factors")) < MaxChunks
            /\ \E frames \in RadouTrajectories :
                  obj' = [obj EXCEPT ![s] = RadouRun(obj[s], frames, tp)]
            /\ outcome' = "none"
            /\ files' = SaveChunkFile(files, "Protection_factors")
         \/ /\ obj[s].cls = "PH"
            /\ \E frames \in PHMismatched :
                  obj' = [obj EXCEPT ![s] = PHRunFailed(obj[s], frames, tp)]
            /\ outcome' = "HDX_Error"
            /\ UNCHANGED files
         \/ /\ obj[s].cls = "PH"
            /\ \E frames \in PHTrajectories :
                  obj' = [obj EXCEPT ![s] = PHRun(obj[s], frames, tp)]
            /\ outcome' = "none"
            /\ UNCHANGED files
    /\ UNCHANGED <<logfile, calls>>

\* obj[1] + obj[2], with obj[1] a Radou or PH object (merged in place)
MethodAdd ==
    /\ IsMethod(obj[1])
    /\ obj[2].cls # "None"
    /\ LET res == MethodAddResult(obj[1], obj[2])
       IN  /\ res.ran => res.n_frames <= MaxFrames
           /\ obj' = [obj EXCEPT ![1] = res]
    /\ outcome' = MethodAddOutcome(obj[1], obj[2])
    /\ UNCHANGED <<logfile, files, calls>>

Next ==
    \/ \E s \in Slots : NewAnalyze(s)
    \/ \E i \in Slots : \E j \in Slots \ {i} : AnalyzeAdd(i, j)
    \/ \E s \in Slots : NewMethod(s)
    \/ \E s \in Slots : Run(s)
    \/ MethodAdd

Spec == Init /\ [][Next]_vars

(***************************************************************************)
(* Segment analysis of an accumulated Analyze object: Analyze.run() on the *)
(* sum of up to MaxChunks chunks.                                          *)
(***************************************************************************)
\* the topologies of a segment analysis (one set of intrinsic rates)
RunTopologies == {tp \in Topologies : tp.rates = FirstTopology.rates}

\* Analyze(c1) + Analyze(c2) + ... for the chunk results cs of topology tp
SumOfChunks(tp, p, cs) ==
    LET resobj(c) == [reslist |-> tp.reslist, rates |-> tp.rates,
                      n_frames |-> c.n_frames, pfs |-> c.pfs,
                      resfracs |-> Dfrac(c.pfs, tp.rates), params |-> p]
        RECURSIVE acc(_)
        acc(i) == IF i = 1 THEN AnalyzeInit(resobj(cs[1]))
                  ELSE AnalyzeAddResult(acc(i - 1), AnalyzeInit(resobj(cs[i])))
    IN  acc(Len(cs))

\* the sums of n chunks
RunObjects(n) ==
    { SumOfChunks(tp, p, cs) : tp \in RunTopologies, p \in ParamSets,
                               cs \in [1..n -> ChunkResults] }

RunInit ==
    /\ \E n \in 1..MaxChunks : \E o \in RunObjects(n) :
          obj = [s \in Slots |-> IF s = 1 THEN o ELSE NoObj]
    /\ outcome = "none"
    /\ logfile = <<>>
    /\ files = {}
    /\ calls = <<>>

\* obj[s].run()
AnalyzeRun(s) ==
    /\ obj[s].cls = "Analyze"
    /\ "segres" \notin DOMAIN obj[s]
    /\ LET r == AnalyzeRunResult(obj[s], files)
       IN  /\ obj' = [obj EXCEPT ![s] = r.self]
           /\ outcome' = r.outcome
           /\ logfile' = logfile \o r.log
           /\ files' = r.files
           /\ calls' = r.calls

RunNext == \E s \in Slots : AnalyzeRun(s)

RunSpec == RunInit /\ [][RunNext]_vars

(***************************************************************************)
(* Output files of chunked processing: the segment averages of a sum of    *)
(* chunks and the protection factors of one Radou run per chunk, saved     *)
(* under one outprefix that holds no output at the start.                  *)
(***************************************************************************)
\* the sums of n chunks analysed with the default parameters
OutputObjects(n) ==
    { SumOfChunks(FirstTopology, DefaultParams, cs) :
         cs \in [1..n -> ChunkResults] }

OutputInit ==
    /\ \E n \in 0..MaxChunks :
          IF n = 0 THEN obj = [s \in Slots |-> NoObj]
          ELSE \E o \in OutputObjects(n) :
                  obj = [s \in Slots |-> IF s = 1 THEN o ELSE NoObj]
    /\ outcome = "none"
    /\ logfile = <<>>
    /\ files = {}
    /\ calls = <<>>

OutputNext ==
    \/ \E s \in Slots : AnalyzeRun(s)
    \/ \E s \in Slots : NewMethod(s)
    \/ \E s \in Slots : Run(s)

OutputSpec == OutputInit /\ [][OutputNext]_vars

(***************************************************************************)
(* Properties                                                              *)
(***************************************************************************)
IsAnalyze(o) == o.cls = "Analyze"

Residues(o) == 1..Len(o.reslist)

\* sum over chunks j <= i of n_frames[j] * pfs[j][r]
RECURSIVE FramesTimesPf(_, _, _)
FramesTimesPf(o, i, r) ==
    IF i = 0 THEN Int2V(0)
    ELSE VAdd(FramesTimesPf(o, i - 1, r),
              VMul(Int2V(o.n_frames[i]), o.pfs[i][r]))

\* sum over chunks j <= i of n_frames[j]
RECURSIVE FramesUpTo(_, _)
FramesUpTo(o, i) == IF i = 0 THEN 0 ELSE FramesUpTo(o, i - 1) + o.n_frames[i]

\* C1: in every Analyze object whose first chunk has more than 0 frames, row
\* i of c_pfs is, for every residue, the sum over the chunks j <= i of
\* n_frames[j]*pfs[j] divided by the sum over j <= i of n_frames[j]; chunks
\* of 10 and 10 frames with PF 100 and 300 give the cumulative PF 200.
C1_CumulativePfIsWeightedMean ==
    \A s \in Slots :
        LET o == obj[s] IN
        (IsAnalyze(o) /\ o.n_frames[1] > 0) =>
            /\ Len(o.c_pfs) = Len(o.n_frames)
            /\ \A i \in 1..Len(o.c_pfs) : \A r \in Residues(o) :
                  o.c_pfs[i][r] =
                      VDiv(FramesTimesPf(o, i, r), Int2V(FramesUpTo(o, i)))
            /\ \A r \in Residues(o) :
                  ( /\ Len(o.n_frames) >= 2
                    /\ o.n_frames[1] = 10 /\ o.n_frames[2] = 10
                    /\ o.pfs[1][r] = Int2V(100) /\ o.pfs[2][r] = Int2V(300) )
                  => o.c_pfs[2][r] = Int2V(200)

\* C1 witness: three single chunks of 10, 10 and 30 frames folded left to
\* right, the first two with PF 100 and 300 for residue 1.
C1_Witness ==
    /\ IsAnalyze(obj[1])
    /\ outcome = "new"
    /\ obj[1].n_frames = <<10, 10, 30>>
    /\ obj[1].pfs[1][1] = Int2V(100)
    /\ obj[1].pfs[2][1] = Int2V(300)
    /\ Len(obj[1].c_resfracs) = 3
    /\ obj[1].c_pfs[3][1] = Int2V(260)

\* C2: the cumulative fraction of every residue at every timepoint is
\* 1 - exp(-(k/PF)*t) of the current cumulative PF: in an Analyze object the
\* last row of c_resfracs against the last row of c_pfs, in a Radou or PH
\* object that has run resfracs against the mean PFs.
C2_FractionRecomputedFromCumulativePf ==
    \A s \in Slots :
        LET o == obj[s] IN
        /\ IsAnalyze(o) =>
              \A r \in Residues(o) : \A t \in 1..Len(Times) :
                  Last(o.c_resfracs)[r][t] =
                      ResidueFraction(Last(o.c_pfs)[r], o.rates[r], Times[t])
        /\ (IsMethod(o) /\ o.ran) =>
              \A r \in Residues(o) : \A t \in 1..Len(Times) :
                  o.resfracs[r][t] = Fraction(o.pfs[r].mean, o.rates[r], Times[t])

\* C2 witness: a merge has just produced an Analyze object whose cumulative
\* PF differs from the cumulative PF before the merge and from the PF of the
\* newest chunk.
C2_Witness ==
    /\ IsAnalyze(obj[1])
    /\ outcome = "new"
    /\ Len(obj[1].c_pfs) = 3
    /\ Last(obj[1].c_pfs)[1] # obj[1].c_pfs[2][1]
    /\ Last(obj[1].c_pfs)[1] # Last(obj[1].pfs)[1]
    /\ Last(obj[1].c_pfs)[1].k = "fin"

\* arbitrary blocks of fractions, resfracs[residue][time]
AltBlocks ==
    { [r \in 1..2 |-> [t \in 1..Len(Times) |-> v]] : v \in {Int2V(0), Fin(1, 2)} }

\* o with every per-chunk block of fractions replaced by b and every
\* cumulative block by cb
WithFractions(o, b, cb) ==
    [o EXCEPT !.resfracs   = [i \in 1..Len(o.resfracs) |-> b],
              !.c_resfracs = [i \in 1..Len(o.c_resfracs) |-> cb]]

\* the sum obj[i] + obj[j] is a merge of at most MaxChunks chunks
CanMerge(i, j) ==
    /\ IsAnalyze(obj[i]) /\ IsAnalyze(obj[j])
    /\ SameListsAndRates(obj[i], obj[j])
    /\ Len(obj[i].n_frames) + Len(obj[j].n_frames) <= MaxChunks

\* C3: the row of cumulative fractions a merge appends does not depend on the
\* operands' per-chunk fractions or earlier cumulative fractions: operands
\* that agree on reslist, rates, pfs and n_frames give the same new row.
C3_NewFractionRowIgnoresFractions ==
    \A i \in Slots : \A j \in Slots \ {i} :
        CanMerge(i, j) =>
            LET row == Last(AnalyzeAddResult(obj[i], obj[j]).c_resfracs)
            IN  \A b \in AltBlocks : \A cb \in AltBlocks :
                    Last(AnalyzeAddResult(WithFractions(obj[i], b, cb),
                                          WithFractions(obj[j], cb, b)).c_resfracs)
                      = row

\* C3 witness: two Analyze objects that can be merged, one of them the
\* result of a merge, whose fractions are none of the alternative blocks.
C3_Witness ==
    /\ IsAnalyze(obj[1]) /\ IsAnalyze(obj[2])
    /\ SameListsAndRates(obj[1], obj[2])
    /\ outcome = "new"
    /\ Len(obj[1].n_frames) = 2
    /\ \A b \in AltBlocks : Last(obj[1].c_resfracs) # b /\ Last(obj[2].resfracs) # b
    /\ Last(obj[1].c_resfracs)[1][1].k = "omexp"

\* o holds results: an Analyze object, or a Radou / PH object that has run
HasResults(o) == IsAnalyze(o) \/ (IsMethod(o) /\ o.ran)

\* the step is the evaluation of obj[i] + obj[j] (every other step resets
\* outcome to "none")
AddStep(i, j) ==
    /\ outcome' # "none"
    /\ AnalyzeAdd(i, j) \/ (i = 1 /\ j = 2 /\ MethodAdd)

\* C4: adding two results of one class whose rate vectors differ raises an
\* error and leaves both operands as they were, in Analyze, Radou and PH.
C4_RateMismatchRaises ==
    [][ \A i \in Slots : \A j \in Slots \ {i} :
          ( /\ AddStep(i, j)
            /\ HasResults(obj[i]) /\ HasResults(obj[j])
            /\ obj[i].cls = obj[j].cls
            /\ obj[i].rates # obj[j].rates )
          => (outcome' = "HDX_Error" /\ obj' = obj) ]_vars

\* C5: adding two results of one class whose residue lists differ is
\* rejected with an error and produces no merged state, in Analyze, Radou
\* and PH.
C5_ReslistMismatchRaises ==
    [][ \A i \in Slots : \A j \in Slots \ {i} :
          ( /\ AddStep(i, j)
            /\ HasResults(obj[i]) /\ HasResults(obj[j])
            /\ obj[i].cls = obj[j].cls
            /\ obj[i].reslist # obj[j].reslist )
          => (outcome' = "HDX_Error" /\ obj' = obj) ]_vars

\* the frames an object holds
TotalFrames(o) == IF IsAnalyze(o) THEN Last(o.c_n_frames) ELSE o.n_frames

\* C6: merging a chunk of 0 frames into a state of more than 0 frames leaves
\* the state as it was: cumulative PF, SD, frame count, cumulative fraction
\* and per-chunk history (Analyze.__add__, Radou.__add__).
C6_ZeroFrameChunkIsIdentity ==
    [][ \A i \in Slots : \A j \in Slots \ {i} :
          ( /\ AddStep(i, j)
            /\ outcome' \in {"new", "merged"}
            /\ obj[i].cls \in {"Analyze", "Radou"}
            /\ TotalFrames(obj[j]) = 0
            /\ TotalFrames(obj[i]) > 0 )
          => obj'[1] = obj[i] ]_vars

\* the final cumulative PF row and total frame count of an Analyze object
Final(o) == <<Last(o.c_pfs), Last(o.c_n_frames)>>

\* the single-chunk Analyze objects that can be merged with o
FreshChunksFor(o) ==
    { AnalyzeInit(x) : x \in ResObjs({[reslist |-> o.reslist, rates |-> o.rates]}) }

\* C7: the final cumulative PF and the final total frame count do not depend
\* on the order or the grouping of the merges: for the objects a, b at hand
\* (their sum holding at most MaxChunks chunks)
\* and any further chunk c, a+b and b+a agree, (a+b)+c and (a+c)+b agree (the
\* exchanges that generate every permutation), and (a+b)+c and a+(b+c) agree.
C7_FinalPfIndependentOfOrderAndGrouping ==
    LET a == obj[1]
        b == obj[2]
    IN  CanMerge(1, 2) =>
          LET ab == AnalyzeAddResult(a, b)
          IN  /\ Final(ab) = Final(AnalyzeAddResult(b, a))
              /\ \A c \in FreshChunksFor(a) :
                    LET abc == Final(AnalyzeAddResult(ab, c))
                    IN  /\ abc = Final(AnalyzeAddResult(a, AnalyzeAddResult(b, c)))
                        /\ abc = Final(AnalyzeAddResult(AnalyzeAddResult(a, c), b))

\* C7 witness: an accumulated object of two chunks with different frame
\* counts and PFs, and a further chunk that can be merged with it.
C7_Witness ==
    /\ IsAnalyze(obj[1]) /\ IsAnalyze(obj[2])
    /\ SameListsAndRates(obj[1], obj[2])
    /\ obj[1].n_frames = <<10, 30>>
    /\ obj[1].pfs[1] # obj[1].pfs[2]
    /\ obj[2].n_frames = <<10>>
    /\ obj[2].pfs[1] = obj[1].pfs[1]
    /\ Len(obj[1].c_resfracs) = 2

\* the step merges obj[2] into the Radou object obj[1]
RadouMergeStep == outcome' = "merged" /\ obj[1].cls = "Radou" /\ MethodAdd

\* C8: a Radou merge of F and f_new frames sets the mean PF of every residue
\* to (F*PF_cum + f_new*PF_new)/(F + f_new) and the frame count to F + f_new.
C8_RadouMergedMean ==
    [][ RadouMergeStep =>
          LET F == obj[1].n_frames
              f == obj[2].n_frames
          IN  /\ obj'[1].n_frames = F + f
              /\ \A r \in Residues(obj[1]) :
                    obj'[1].pfs[r].mean =
                        VDiv(VAdd(VMul(Int2V(F), obj[1].pfs[r].mean),
                                  VMul(Int2V(f), obj[2].pfs[r].mean)),
                             Int2V(F + f)) ]_vars

\* C8 witness: 2 frames of mean PF 2 merged with 3 frames of mean PF 7/3
\* hold 5 frames of mean PF 11/5.
C8_Witness ==
    /\ outcome = "merged"
    /\ obj[1].cls = "Radou"
    /\ obj[1].n_frames = 5
    /\ obj[2].n_frames = 3
    /\ obj[2].pfs[1].mean = Fin(7, 3)
    /\ obj[1].pfs[1].mean = Fin(11, 5)

\* C9: a Radou merge sets the standard deviation of every residue to
\* sqrt(F^2*SD_cum^2 + f_new^2*SD_new^2)/(F + f_new), F being the frame count
\* before the merge.
C9_RadouMergedSd ==
    [][ RadouMergeStep =>
          LET F == obj[1].n_frames
              f == obj[2].n_frames
          IN  \A r \in Residues(obj[1]) :
                obj'[1].pfs[r].sd =
                    NpSqrt(VDiv(VAdd(VMul(Int2V(F * F), Square(obj[1].pfs[r].sd)),
                                     VMul(Int2V(f * f), Square(obj[2].pfs[r].sd))),
                                Int2V((F + f) * (F + f)))) ]_vars

\* C9 witness: 2 frames of variance 2 merged with 3 frames of variance 4/3
\* have the standard deviation sqrt(4*2 + 9*(4/3))/5 = sqrt(4/5).
C9_Witness ==
    /\ outcome = "merged"
    /\ obj[1].cls = "Radou"
    /\ obj[1].n_frames = 5
    /\ obj[2].n_frames = 3
    /\ obj[2].pfs[1].sd = NpSqrt(Fin(4, 3))
    /\ obj[1].pfs[1].sd = NpSqrt(Fin(4, 5))

\* mine followed by theirs, for the three per-chunk arrays
IsConcatenation(new, self, other) ==
    /\ new.pfs      = self.pfs \o other.pfs
    /\ new.resfracs = self.resfracs \o other.resfracs
    /\ new.n_frames = self.n_frames \o other.n_frames

\* C10: a successful Analyze merge leaves pfs, resfracs and n_frames as the
\* operands' arrays concatenated in merge order (self's entries, then
\* other's), so no earlier entry is modified, reordered or dropped; a call
\* that does not merge leaves them as they were.
C10_PerChunkHistoryIsConcatenation ==
    [][ \A i \in Slots : \A j \in Slots \ {i} :
          (outcome' # "none" /\ AnalyzeAdd(i, j)) =>
             IF outcome' = "new"
             THEN IsConcatenation(obj'[1], obj[i], obj[j])
             ELSE obj' = obj ]_vars

\* C10 witness: an accumulated object of two different chunks has been
\* merged behind a further chunk (other holds the earlier merges' entries).
C10_Witness ==
    /\ outcome = "new"
    /\ IsAnalyze(obj[1]) /\ IsAnalyze(obj[2])
    /\ Len(obj[1].n_frames) = 3
    /\ obj[1].n_frames[1] = obj[2].n_frames[1]
    /\ obj[1].pfs[1] = obj[2].pfs[1]
    /\ obj[1].pfs[2] # obj[1].pfs[3]
    /\ obj[1].n_frames[2] # obj[1].n_frames[3]
    /\ Len(obj[1].c_resfracs) = 2

(***************************************************************************)
(* Water-contact model and non-finite protection factors                   *)
(***************************************************************************)
\* frames of one residue with more than one water contact (open) / with at
\* most one (closed)
OpenFrames(wc) == Cardinality({f \in 1..Len(wc) : wc[f] > 1})

ClosedFrames(wc) == Cardinality({f \in 1..Len(wc) : wc[f] <= 1})

\* the step is obj[s].run(trajectory) of a PH object
PHRunStep(s) ==
    /\ obj'[s].cls = "PH" /\ obj'[s].ran
    /\ obj[s].cls = "PH" /\ ~obj[s].ran

\* the step merges obj[2] into the PH object obj[1]
PHMergeStep == outcome' = "merged" /\ obj[1].cls = "PH" /\ MethodAdd

\* C15: after PH.run the PF of a residue is its closed frames over its open
\* frames (open: more than 1 water contact), contacts [0,0,2] giving 2;
\* after a PH merge it is the closed frames of both operands over the open
\* frames of both operands, and the frame count is the sum.
C15_PHPfIsRatioOfTotals ==
    [][ /\ \A s \in Slots : PHRunStep(s) =>
              \A r \in Residues(obj'[s]) :
                 LET wc == obj'[s].watcontacts[r] IN
                 /\ Len(wc) = obj'[s].n_frames
                 /\ obj'[s].pfs[r].mean =
                       VDiv(Int2V(ClosedFrames(wc)), Int2V(OpenFrames(wc)))
                 /\ wc = <<0, 0, 2>> => obj'[s].pfs[r].mean = Int2V(2)
        /\ PHMergeStep =>
              /\ obj'[1].n_frames = obj[1].n_frames + obj[2].n_frames
              /\ \A r \in Residues(obj[1]) :
                    LET mine   == obj[1].watcontacts[r]
                        theirs == obj[2].watcontacts[r]
                    IN  obj'[1].pfs[r].mean =
                           VDiv(Int2V(ClosedFrames(mine) + ClosedFrames(theirs)),
                                Int2V(OpenFrames(mine) + OpenFrames(theirs))) ]_vars

\* C15 witness: 3 frames with contacts [0,0,2] (PF 2) merged with 1 open
\* frame (PF 0) hold 2 closed and 2 open frames, PF 1; the frame-weighted
\* mean of the two PFs would be 3/2.
C15_Witness ==
    /\ outcome = "merged"
    /\ obj[1].cls = "PH"
    /\ obj[1].watcontacts[1] = <<0, 0, 2, 2>>
    /\ obj[2].pfs[1].mean = Int2V(0)
    /\ obj[2].n_frames = 1
    /\ obj[1].n_frames = 4
    /\ obj[1].pfs[1].mean = Int2V(1)

\* C16 as claimed: a residue with PF +inf before a PH merge has PF +inf
\* after it.
C16_InfinitePfSurvivesMerge ==
    [][ PHMergeStep =>
          \A r \in Residues(obj[1]) :
             obj[1].pfs[r].mean = Inf(1) => obj'[1].pfs[r].mean = Inf(1) ]_vars

\* C16 amended: PH.run gives PF +inf (fraction 0) to a residue with no open
\* and at least one closed frame; a PH merge keeps a PF of +inf, with
\* fraction 0, when the merged-in chunk has no open frame of the residue and
\* otherwise sets the finite ratio of all closed to all open frames.
C16_InfinitePfWhileNoOpenFrame ==
    [][ /\ \A s \in Slots : PHRunStep(s) =>
              \A r \in Residues(obj'[s]) :
                 LET wc == obj'[s].watcontacts[r] IN
                 (OpenFrames(wc) = 0 /\ ClosedFrames(wc) >= 1) =>
                    /\ obj'[s].pfs[r].mean = Inf(1)
                    /\ \A t \in 1..Len(Times) : obj'[s].resfracs[r][t] = Int2V(0)
        /\ PHMergeStep =>
              \A r \in Residues(obj[1]) :
                 obj[1].pfs[r].mean = Inf(1) =>
                    LET theirs == obj[2].watcontacts[r] IN
                    IF OpenFrames(theirs) = 0
                    THEN /\ obj'[1].pfs[r].mean = Inf(1)
                         /\ \A t \in 1..Len(Times) :
                               obj'[1].resfracs[r][t] = Int2V(0)
                    ELSE obj'[1].pfs[r].mean =
                            Fin(ClosedFrames(obj[1].watcontacts[r])
                                   + ClosedFrames(theirs),
                                OpenFrames(theirs)) ]_vars

\* C16 witness: a residue closed in both frames of the accumulated object
\* and in the frame of the merged-in chunk has PF +inf over 3 frames.
C16_Witness ==
    /\ outcome = "merged"
    /\ obj[1].cls = "PH"
    /\ obj[1].n_frames = 3
    /\ obj[2].n_frames = 1
    /\ obj[1].watcontacts[1] = <<0, 0, 0>>
    /\ obj[1].pfs[1].mean = Inf(1)
    /\ obj[1].resfracs[1][1] = Int2V(0)

\* the newest cumulative row of an Analyze object that results from a merge
Merged(o) == IsAnalyze(o) /\ Len(o.c_pfs) >= 2

\* C17 as claimed: the fraction recomputed for a residue of cumulative PF 0
\* is not a finite number.
C17_ZeroPfFractionNonFinite ==
    \A s \in Slots :
        Merged(obj[s]) =>
           \A r \in Residues(obj[s]) :
              IsZero(Last(obj[s].c_pfs)[r]) =>
                 \A t \in 1..Len(Times) :
                    Last(obj[s].c_resfracs)[r][t].k \in {"nan", "inf"}

\* C17 amended: the fraction recomputed in a merge for a residue of
\* cumulative PF 0 (rate > 0, time > 0) is 1: -k/0 is -inf and exp(-inf)
\* is 0.
C17_ZeroPfFractionIsOne ==
    \A s \in Slots :
        Merged(obj[s]) =>
           \A r \in Residues(obj[s]) :
              IsZero(Last(obj[s].c_pfs)[r]) =>
                 \A t \in 1..Len(Times) :
                    Last(obj[s].c_resfracs)[r][t] = Int2V(1)

\* C17 witness: a merge of two chunks has left a residue with cumulative
\* PF 0.
C17_Witness ==
    /\ outcome = "new"
    /\ Merged(obj[1])
    /\ IsZero(Last(obj[1].c_pfs)[1])
    /\ Last(obj[1].c_resfracs)[1][2] = Int2V(1)

\* C18: the fraction recomputed in a merge for a residue of cumulative PF
\* +inf is 0 at every timepoint.
C18_InfinitePfFractionIsZero ==
    \A s \in Slots :
        Merged(obj[s]) =>
           \A r \in Residues(obj[s]) :
              Last(obj[s].c_pfs)[r] = Inf(1) =>
                 \A t \in 1..Len(Times) :
                    Last(obj[s].c_resfracs)[r][t] = Int2V(0)

\* C18 witness: a chunk with a finite PF has been merged behind a chunk
\* with PF +inf; the cumulative PF of the residue is +inf.
C18_Witness ==
    /\ outcome = "new"
    /\ Merged(obj[1])
    /\ Last(obj[1].c_pfs)[2] = Inf(1)
    /\ Last(obj[1].pfs)[2].k = "fin"
    /\ Last(obj[1].c_resfracs)[2][1] = Int2V(0)

(***************************************************************************)
(* Segment averages (RunSpec)                                              *)
(***************************************************************************)
\* run() has been called on o / has passed segments()
HasSegres(o) == IsAnalyze(o) /\ "segres" \in DOMAIN o

HasSegfracs(o) == IsAnalyze(o) /\ "segfracs" \in DOMAIN o

Present(id) == id \in DOMAIN Res2Idx

\* the fractions at timepoint t of the residues of block, in list order,
\* whose index is at least lo and at most hi, from position i on
RECURSIVE FractionsWithin(_, _, _, _, _, _)
FractionsWithin(reslist, block, t, lo, hi, i) ==
    IF i > Len(reslist) THEN <<>>
    ELSE (IF reslist[i] >= lo /\ reslist[i] <= hi THEN <<block[i][t]>> ELSE <<>>)
         \o FractionsWithin(reslist, block, t, lo, hi, i + 1)

\* smallest index averaged for a segment that starts at index start
FirstAveraged(o, start) == IF o.params.skip_first THEN start + 1 ELSE start

\* C11: whenever run() has read a segment whose start ID is not in the
\* topology, the call has not raised, the substitution of the first residue
\* is in the log, and per-chunk and cumulative averages exist for every
\* segment.
C11_MissingStartIsSubstituted ==
    \A s \in Slots :
        (HasSegres(obj[s]) /\ \E i \in 1..Len(obj[s].segres) :
                                  ~Present(obj[s].segres[i][1]))
        => /\ outcome # "KeyError"
           /\ \E n \in 1..Len(logfile) : logfile[n].msg = "startpoint"
           /\ HasSegfracs(obj[s])
           /\ \A b \in 1..Len(obj[s].segfracs) :
                 Len(obj[s].segfracs[b]) = Len(obj[s].segres)

C13_SegmentAverageRange ==
    \A s \in Slots :
        LET o == obj[s] IN
        HasSegfracs(o) =>
           \A i \in 1..Len(o.segres) :
              (Present(o.segres[i][1]) /\ Present(o.segres[i][2])) =>
                 LET lo == FirstAveraged(o, Res2Idx[o.segres[i][1]])
                     hi == Res2Idx[o.segres[i][2]]
                 IN  /\ \A b \in 1..Len(o.resfracs) : \A t \in 1..Len(Times) :
                           o.segfracs[b][i][t] =
                              NpMeanOf(FractionsWithin(o.reslist, o.resfracs[b],
                                                       t, lo, hi, 1))
                     /\ \A b \in 1..Len(o.c_resfracs) : \A t \in 1..Len(Times) :
                           o.c_segfracs[b][i][t] =
                              NpMeanOf(FractionsWithin(o.reslist, o.c_resfracs[b],
                                                       t, lo, hi, 1))
                     /\ (o.segres[i] = <<10, 20>> /\ o.params.skip_first
                           /\ o.reslist = <<1, 2>>)
                        => \A b \in 1..Len(o.resfracs) : \A t \in 1..Len(Times) :
                              o.segfracs[b][i][t] = o.resfracs[b][2][t]

\* C13 witness: segment (10, 20) has been averaged with skip_first over the
\* listed residues 10 and 20, whose fractions differ.
C13_Witness ==
    /\ HasSegfracs(obj[1])
    /\ obj[1].params.skip_first
    /\ obj[1].reslist = <<1, 2>>
    /\ obj[1].segres[1] = <<10, 20>>
    /\ obj[1].segfracs[1][1][1] = obj[1].resfracs[1][2][1]
    /\ obj[1].segfracs[1][1][1] # obj[1].resfracs[1][1][1]
    /\ obj[1].segfracs[1][1][1].k = "omexp"

\* the averages of one block of residue fractions for every segment and
\* timepoint, start and end points as the run resolves them
BlockAverages(o, block) ==
    [i \in 1..Len(o.segres) |->
       [t \in 1..Len(Times) |->
          LET lo == FirstAveraged(o, Res2Idx[o.segres[i][1]])
              hi == IF Present(o.segres[i][2]) THEN Res2Idx[o.segres[i][2]]
                    ELSE LastResidueIndex
          IN  NpMeanOf(FractionsWithin(o.reslist, block, t, lo, hi, 1))]]

\* C14: a run that averages leaves two arrays: segfracs with one block per
\* entry of resfracs, block i computed from resfracs[i] alone, and
\* c_segfracs with one block per entry of c_resfracs, block i computed from
\* c_resfracs[i] alone.
C14_ChunkAndCumulativeAveragesIndependent ==
    \A s \in Slots :
        LET o == obj[s] IN
        HasSegfracs(o) =>
           /\ Len(o.segfracs) = Len(o.resfracs)
           /\ Len(o.c_segfracs) = Len(o.c_resfracs)
           /\ \A b \in 1..Len(o.resfracs) :
                 o.segfracs[b] = BlockAverages(o, o.resfracs[b])
           /\ \A b \in 1..Len(o.c_resfracs) :
                 o.c_segfracs[b] = BlockAverages(o, o.c_resfracs[b])

\* C14 witness: after a run over three chunks the last per-chunk block and
\* the last cumulative block of segment averages differ.
C14_Witness ==
    /\ HasSegfracs(obj[1])
    /\ Len(obj[1].segfracs) = 3
    /\ Len(obj[1].c_segfracs) = 3
    /\ obj[1].segfracs[3] # obj[1].c_segfracs[3]
    /\ obj[1].segfracs[2] # obj[1].c_segfracs[2]
    /\ obj[1].c_segfracs[3][1][1].k = "omexp"

\* C19: whenever run() reaches read_expfile with experimental segments that
\* are not self.segres (a value, the order or the count differs), it ends
\* in HDX_Error with expfracs unset; expfracs, when set, holds the rows of
\* the file in file order.
C19_ExpSegmentsMustMatch ==
    \A s \in Slots :
        LET o == obj[s] IN
        (HasSegfracs(o) /\ o.params.expfile # "None") =>
           LET expt == ExpFiles[o.params.expfile]
               segs == [i \in 1..Len(expt) |-> expt[i].segres]
           IN  /\ segs # o.segres =>
                     /\ outcome = "HDX_Error"
                     /\ "expfracs" \notin DOMAIN o
               /\ "expfracs" \in DOMAIN o =>
                     /\ segs = o.segres
                     /\ o.expfracs = [i \in 1..Len(expt) |-> expt[i].fracs]

\* C19 witness: a run whose experimental file lists the predicted segments
\* in the other order has ended in HDX_Error after the segment averaging.
C19_Witness ==
    /\ HasSegfracs(obj[1])
    /\ obj[1].params.expfile = "exp_swapped"
    /\ obj[1].params.segfile = "seg_present"
    /\ outcome = "HDX_Error"
    /\ "expfracs" \notin DOMAIN obj[1]

\* desc_stats() has been called on o
HasStats(o) == IsAnalyze(o) /\ "MSE" \in DOMAIN o

\* |a| <= b for rationals a, b
AbsLeq(a, b) == Abs(a.n) * b.d <= b.n * a.d

\* C20: at every timepoint MSE is the mean over the segments of
\* c_segfracs[-1] - expfracs and MUE the mean of the absolute differences;
\* MUE >= |MSE| wherever both are numbers.
C20_ErrorsOfFinalCumulativeFractions ==
    \A s \in Slots :
        LET o == obj[s] IN
        HasStats(o) =>
           \A t \in 1..Len(Times) :
              LET err == [i \in 1..Len(o.segres) |->
                            NpSub(o.c_segfracs[Len(o.c_segfracs)][i][t],
                                  o.expfracs[i][t])]
              IN  /\ o.MSE[t] = NpMeanOf(err)
                  /\ o.MUE[t] = NpMeanOf([i \in 1..Len(err) |-> NpAbs(err[i])])
                  /\ (o.MSE[t].k = "fin" /\ o.MUE[t].k = "fin") =>
                        AbsLeq(o.MSE[t], o.MUE[t])

\* C20 witness: over two chunks the predicted fractions 0 and 1/2 against
\* the experimental 1/2 and 1/4 give MSE -1/8 and MUE 3/8.
C20_Witness ==
    /\ HasStats(obj[1])
    /\ outcome = "done"
    /\ Len(obj[1].c_segfracs) = 2
    /\ obj[1].c_segfracs[2][1][1] = Int2V(0)
    /\ obj[1].c_segfracs[2][2][1] = Fin(1, 2)
    /\ obj[1].MSE[1] = Fin(-1, 8)
    /\ obj[1].MUE[1] = Fin(3, 8)

(***************************************************************************)
(* Failed runs, operands and output files.                                 *)
(***************************************************************************)
\* the attributes run() assigns from PF() on
ResultAttributes == {"reslist", "pfs", "pf_byframe", "rates", "resfracs"}

\* the step is obj[s].run(trajectory) ending in HDX_Error
FailedRunStep(s) ==
    /\ IsMethod(obj[s]) /\ ~obj[s].ran
    /\ outcome' = "HDX_Error"
    /\ obj'[s].cls = obj[s].cls /\ "n_frames" \in DOMAIN obj'[s]
    /\ \A o \in Slots \ {s} : obj'[o] = obj[o]

\* C21: a Radou run whose residue lists for H-bond counts and heavy-atom
\* contacts differ ends in HDX_Error before any protection factor is computed
\* or written: no file is saved and the object has no reslist, pfs,
\* pf_byframe, rates or resfracs afterwards.
C21_RadouMismatchLeavesNoResults ==
    [][ \A s \in Slots :
          (FailedRunStep(s) /\ obj[s].cls = "Radou") =>
              /\ files' = files
              /\ ~obj'[s].ran
              /\ DOMAIN obj'[s] \cap ResultAttributes = {} ]_vars

\* C21 witness: a Radou object after a failed run of a 2-frame chunk, with a
\* protection-factor file of an earlier, completed run on disk.
C21_Witness ==
    /\ obj[2].cls = "Radou" /\ ~obj[2].ran
    /\ "n_frames" \in DOMAIN obj[2] /\ obj[2].n_frames = 2
    /\ outcome = "HDX_Error"
    /\ files = {FileName("Protection_factors", 0)}

\* C22: in every Analyze object the six history arrays n_frames, c_n_frames,
\* pfs, c_pfs, resfracs and c_resfracs have the same number of rows, whatever
\* merges produced it (operands of more than one chunk included).
C22_HistoryArraysAligned ==
    \A s \in Slots :
        LET o == obj[s] IN
        IsAnalyze(o) =>
            /\ Len(o.c_n_frames) = Len(o.n_frames)
            /\ Len(o.pfs) = Len(o.n_frames)
            /\ Len(o.c_pfs) = Len(o.n_frames)
            /\ Len(o.resfracs) = Len(o.n_frames)
            /\ Len(o.c_resfracs) = Len(o.n_frames)

\* C23: in every Analyze object c_n_frames is the running sum of n_frames:
\* entry i is the sum of n_frames[1..i]; the entries do not decrease and the
\* last one is the number of frames of all the chunks.
C23_CumulativeFramesAreRunningSum ==
    \A s \in Slots :
        LET o == obj[s] IN
        IsAnalyze(o) =>
            /\ Len(o.c_n_frames) = Len(o.n_frames)
            /\ \A i \in 1..Len(o.c_n_frames) :
                  /\ o.c_n_frames[i] = FramesUpTo(o, i)
                  /\ i > 1 => o.c_n_frames[i - 1] <= o.c_n_frames[i]
            /\ Last(o.c_n_frames) = FramesUpTo(o, Len(o.n_frames))

\* C23 witness: the sum of a chunk of 10 frames and a 2-chunk object, the
\* three chunks holding 10, 30 and 10 frames.
C23_Witness ==
    /\ IsAnalyze(obj[1])
    /\ outcome = "new"
    /\ obj[1].n_frames = <<10, 30, 10>>
    /\ obj[1].c_n_frames = <<10, 40, 50>>

\* C24: Analyze.__add__ leaves its operands as they were: when it merges, the
\* result is a new object holding the merged state and the operand the driver
\* still holds (slot 2: self of obj[2] + obj[1], other of obj[1] + obj[2]) is
\* unchanged; when it does not merge it returns self and nothing changes.
C24_AnalyzeAddLeavesOperands ==
    [][ \A i \in Slots : \A j \in Slots \ {i} :
          AnalyzeAdd(i, j) =>
              IF IsAnalyze(obj[j]) /\ SameListsAndRates(obj[i], obj[j])
              THEN /\ outcome' = "new"
                   /\ obj'[1] = AnalyzeMerged(obj[i], obj[j])
                   /\ obj'[2] = obj[2]
              ELSE /\ outcome' = "self"
                   /\ obj' = obj ]_vars

\* C24 witness: after obj[2] + obj[1] the result starts with the chunk of
\* obj[2], which is still the single chunk it was.
C24_Witness ==
    /\ outcome = "new"
    /\ IsAnalyze(obj[1]) /\ IsAnalyze(obj[2])
    /\ Len(obj[2].n_frames) = 1 /\ Len(obj[1].n_frames) = 2
    /\ obj[1].pfs[1] = obj[2].pfs[1]
    /\ obj[1].pfs[2] # obj[2].pfs[1]
    /\ obj[1].n_frames[1] = obj[2].n_frames[1]

C26_ByFrameColumnsAreFrames ==
    \A s \in Slots :
        LET o == obj[s] IN
        (IsMethod(o) /\ o.ran) =>
            /\ \A r \in 1..Len(o.pf_byframe) : Len(o.pf_byframe[r]) = o.n_frames
            /\ o.cls = "PH" =>
                 \A r \in 1..Len(o.watcontacts) :
                    Len(o.watcontacts[r]) = o.n_frames

\* C26 witness: an object of 5 frames merged from a chunk of 2 frames and one
\* of 3 frames, in either order.
C26_Witness ==
    /\ outcome = "merged"
    /\ obj[1].ran /\ obj[2].ran
    /\ obj[1].n_frames = 5 /\ obj[2].n_frames \in {2, 3}
    /\ Len(obj[1].pf_byframe[1]) = 5

\* the name of the k-th per-chunk output of a kind: <base>.dat, then
\* <base>_chunk_k.dat
ChunkName(base, k) == IF k = 1 THEN FileName(base, 0) ELSE FileName(base, k)

\* the files of a kind are those of its first k writes
FirstWrites(fs, base, k) == Glob(fs, base) = {ChunkName(base, i) : i \in 1..k}

\* the step adds the next n outputs of a kind, each under a name of its own
WritesNext(base, n) ==
    LET k == Cardinality(Glob(files, base))
    IN  /\ FirstWrites(files, base, k)
        /\ FirstWrites(files', base, k + n)
        /\ Cardinality(Glob(files', base)) = k + n
        /\ files \subseteq files'

\* the step is obj[s].run(trajectory) of a Radou object, run to completion
RadouRunStep(s) ==
    /\ obj[s].cls = "Radou" /\ ~obj[s].ran
    /\ obj'[s].cls = "Radou" /\ obj'[s].ran

\* the step is obj[s].run() of an Analyze object with segments() completed
SegmentsStep(s) ==
    /\ IsAnalyze(obj[s]) /\ ~HasSegfracs(obj[s])
    /\ IsAnalyze(obj'[s]) /\ HasSegfracs(obj'[s])

\* C27: with no output present at the start and none removed, the k-th
\* protection-factor file Radou.PF saves and the k-th segment-average file
\* Analyze.segments saves get a name no earlier write of the kind used:
\* <name>.dat for k = 1 and <name>_chunk_k.dat for k >= 2; a completed Radou
\* run saves one file, segments() one per chunk.
C27_ChunkOutputsNeverOverwritten ==
    [][ \A s \in Slots :
          /\ RadouRunStep(s) => WritesNext("Protection_factors", 1)
          /\ SegmentsStep(s) =>
                WritesNext("Segment_average_fractions", Len(obj'[s].segfracs)) ]_vars

\* C27 witness: three segment-average files of one run() over three chunks
\* and the protection-factor files of three Radou runs.
C27_Witness ==
    /\ Glob(files, "Segment_average_fractions")
          = { FileName("Segment_average_fractions", 0),
              FileName("Segment_average_fractions", 2),
              FileName("Segment_average_fractions", 3) }
    /\ Glob(files, "Protection_factors")
          = { FileName("Protection_factors", 0),
              FileName("Protection_factors", 2),
              FileName("Protection_factors", 3) }
    /\ \E s \in Slots : obj[s].cls = "Radou" /\ obj[s].ran

\* the position of the first call of a method in the call record, 0 if none
CalledAt(method, raised) ==
    IF \E i \in 1..Len(calls) : calls[i] = Call(method, raised)
    THEN CHOOSE i \in 1..Len(calls) :
            /\ calls[i] = Call(method, raised)
            /\ \A j \in 1..(i - 1) : calls[j] # Call(method, raised)
    ELSE 0

\* the method occurs in the call record
Called(method) == \E i \in 1..Len(calls) : calls[i].method = method

\* C28: in Analyze.run() desc_stats is called only after read_expfile has
\* returned in the same run, and both only after segments() has returned;
\* with params['expfile'] None neither is called; when read_expfile raises,
\* desc_stats is not called and no statistics are set or written.
C28_StatsOnlyAfterExpfileRead ==
    \A s \in Slots :
        (IsAnalyze(obj[s]) /\ calls # <<>>) =>
            /\ \A i \in 1..Len(calls) :
                  /\ calls[i].method = "desc_stats" =>
                        /\ CalledAt("read_expfile", FALSE) \in 1..(i - 1)
                        /\ CalledAt("segments", FALSE) \in 1..(i - 1)
                  /\ calls[i].method = "read_expfile" =>
                        CalledAt("segments", FALSE) \in 1..(i - 1)
            /\ obj[s].params.expfile = "None" =>
                  ~Called("read_expfile") /\ ~Called("desc_stats")
            /\ CalledAt("read_expfile", TRUE) # 0 =>
                  /\ ~Called("desc_stats")
                  /\ ~HasStats(obj[s])
                  /\ FileName("Descriptive_statistics", 0) \notin files
            /\ HasStats(obj[s]) <=> Called("desc_stats")
            /\ FileName("Descriptive_statistics", 0) \in files
                  <=> Called("desc_stats")

\* C28 witness: a run over an experimental file that read_expfile rejects:
\* the segment averages are set and saved, no statistics exist.
C28_Witness ==
    /\ outcome = "HDX_Error"
    /\ calls = << Call("read_segfile", FALSE), Call("segments", FALSE),
                  Call("read_expfile", TRUE) >>
    /\ HasSegfracs(obj[1]) /\ ~HasStats(obj[1])
    /\ FileName("Segment_average_fractions", 0) \in files

====
